---- MODULE Spec2Model ----
(***************************************************************************)
(* Model of utils/fastapi/decorators.py: the with_authorization decorator  *)
(* and its module-level TTLCache.  Several decorated coroutines may be in  *)
(* flight on one event loop; a coroutine runs atomically between two       *)
(* suspension points (the HTTP GET and the wrapped coroutine).             *)
(***************************************************************************)
EXTENDS Integers, FiniteSets, Sequences, TLC

\* ---------------------------------------------------------------- bounds
NSlots == 2          \* coroutines that may be in flight at the same time
TickStep == 600      \* seconds the clock advances in one step
MaxTime == 1800      \* the clock stops advancing here

\* ------------------------------------------------------ program constants
TTL == 1200
HTTP_403_FORBIDDEN == 403

Slots == 1..NSlots
NoToken == "absent"                       \* access_token not among kwargs
Tokens == {NoToken, "", "tokA"}
Keys == {"tokA"}
Predicates == {"marker", "strict", "broken"}
AuthEnvValues == {"unset", "0", "1"}

VARIABLES authEnv, endpointSet, now, cache, calls, insertedAt, lastStored,
          hitSince

vars == <<authEnv, endpointSet, now, cache, calls, insertedAt, lastStored,
          hitSince>>

\* ------------------------------------------------------------- responses
NoResp == [by |-> 0, marker |-> FALSE]
Response(s, m) == [by |-> s, marker |-> m]

NoResult == [some |-> FALSE, val |-> 0]
\* the value the wrapped coroutine returns for the arguments it was given
FuncResult(a) == [some |-> TRUE, val |-> a]

\* ------------------------------------------------------------- TTLCache
NoEntry == [present |-> FALSE, resp |-> NoResp, expires |-> 0]

Expired(e, t) == e.present /\ ~(t < e.expires)

\* TTLCache.__getitem__: an absent or expired key raises KeyError
CacheHas(c, k, t) == c[k].present /\ ~Expired(c[k], t)

CacheGet(c, k) == c[k].resp

\* the cache after __getitem__: a lookup moves no deadline
CacheAfterGetSliding(c, k, t) ==
    IF CacheHas(c, k, t) THEN [c EXCEPT ![k].expires = t + TTL] ELSE c

CacheAfterGet(c, k, t) == c

\* TTLCache.__setitem__: purge what has expired, then (re)insert with a
\* fresh deadline
CacheSetKeepFirst(c, k, v, t) ==
    [x \in Keys |->
        IF x = k
        THEN IF CacheHas(c, k, t) THEN c[k]
             ELSE [present |-> TRUE, resp |-> v, expires |-> t + TTL]
        ELSE IF Expired(c[x], t) THEN NoEntry ELSE c[x]]

CacheSet(c, k, v, t) ==
    [x \in Keys |->
        IF x = k THEN [present |-> TRUE, resp |-> v, expires |-> t + TTL]
        ELSE IF Expired(c[x], t) THEN NoEntry ELSE c[x]]

\* line 54: the response is stored whatever the predicate will say
StoreResponseIfAccepted(c, k, v, t) ==
    IF v.marker THEN CacheSet(c, k, v, t)
    ELSE [x \in Keys |-> IF Expired(c[x], t) THEN NoEntry ELSE c[x]]

StoreResponse(c, k, v, t) == CacheSet(c, k, v, t)

\* ---------------------------------------------------------- environment
\* not int(os.environ.get('AUTH_ENABLED', 1))
AuthEnabledTruthy(env) == TRUE

AuthEnabled(env) == IF env = "unset" THEN TRUE ELSE env # "0"

\* kwargs.get('access_token', '')
AccessToken(tok) == IF tok = NoToken THEN "" ELSE tok

\* the caller-supplied auth_check applied to a response
AuthCheck(p, resp) ==
    CASE p = "marker" -> IF resp.marker THEN "true" ELSE "false"
      [] p = "strict" -> IF resp.marker THEN "true" ELSE "KeyError"
      [] OTHER        -> "Error"

\* ------------------------------------------------------------ call state
Idle ==
    [pc |-> "idle", token |-> NoToken, pred |-> "marker", carrier |-> FALSE,
     args |-> 0, status |-> 0, via |-> "none", lookup |-> "none",
     age |-> "none", netCalls |-> 0, invoked |-> 0, predEvals |-> 0,
     firstPred |-> "none", lastPred |-> "none", predRaised |-> "none",
     swallowed |-> FALSE,
     own |-> NoResp, checkedOwn |-> FALSE, stored |-> FALSE,
     storedBeforeCheck |-> FALSE, invokedArgs |-> 0, result |-> NoResult,
     rejected |-> FALSE, exc |-> "none"]

\* __forbid_access; carrier tells whether kwargs holds a response object,
\* which is read here and nowhere else
ForbidAccessNoop(c, carrier) == c

ForbidAccess(c, carrier) ==
    IF carrier THEN [c EXCEPT !.status = HTTP_403_FORBIDDEN] ELSE c

\* the call is rejected: authorization() returns None
Reject(c, carrier) ==
    [ForbidAccess(c, carrier) EXCEPT !.pc = "done", !.carrier = carrier,
                                     !.rejected = TRUE]

\* an exception leaves authorization()
Propagate(c, e) == [c EXCEPT !.pc = "done", !.exc = e]

\* lines 49-53: os.environ['AUTH_ENDPOINT'] and session.get
Fetch(c) ==
    IF endpointSet
    THEN [c EXCEPT !.pc = "fetching", !.netCalls = @ + 1]
    ELSE Propagate(c, "KeyError")

\* lines 43-47: inside the try a KeyError is swallowed and the GET follows
Raise(c, e, via) ==
    IF via = "hit" /\ e = "KeyError"
    THEN Fetch([c EXCEPT !.swallowed = TRUE])
    ELSE Propagate(c, e)

\* func(*args, **kwargs) is entered
Invoke(c, via) ==
    [c EXCEPT !.pc = "invoking", !.via = via, !.invoked = @ + 1,
              !.invokedArgs = c.args]

\* lines 38-41: next(response)
NextResp(c, resp, via, carrier) ==
    LET r == AuthCheck(c.pred, resp)
        c1 == [c EXCEPT !.predEvals = @ + 1, !.lastPred = r,
                        !.firstPred = IF @ = "none" THEN r ELSE @,
                        !.checkedOwn = (c.stored /\ resp = c.own),
                        !.predRaised = IF @ = "none" /\ r \in {"KeyError", "Error"}
                                       THEN r ELSE @]
    IN  CASE r = "true"  -> Invoke(c1, via)
          [] r = "false" -> Reject(c1, carrier)
          [] OTHER       -> Raise(c1, r, via)

\* how old the entry of a key is, by the time of its last insertion
Age(k, t) ==
    IF insertedAt[k] < 0 THEN "none"
    ELSE IF t < insertedAt[k] + 1200 THEN "within"
    ELSE IF t = insertedAt[k] + 1200 THEN "boundary"
    ELSE "after"

\* lines 30-47: authorization() up to its first suspension point
Authorize(c, carrier) ==
    IF ~AuthEnabled(authEnv) THEN Invoke(c, "bypass")
    ELSE IF AccessToken(c.token) = "" THEN Reject(c, carrier)
    ELSE LET k == AccessToken(c.token)
             c1 == [c EXCEPT !.age = Age(k, now)]
         IN  IF CacheHas(cache, k, now)
             THEN NextResp([c1 EXCEPT !.lookup = "hit"], CacheGet(cache, k), "hit",
                           carrier)
             ELSE Fetch([c1 EXCEPT !.lookup = "miss"])

\* ---------------------------------------------------------------- actions
\* a finished call is returned to its caller before the loop runs anything else
NoneDone == \A r \in Slots : calls[r].pc # "done"

Init ==
    /\ authEnv \in AuthEnvValues
    /\ endpointSet \in BOOLEAN
    /\ now = 0
    /\ cache = [k \in Keys |-> NoEntry]
    /\ calls = [s \in Slots |-> Idle]
    /\ insertedAt = [k \in Keys |-> -1]
    /\ lastStored = [k \in Keys |-> NoResp]
    /\ hitSince = [k \in Keys |-> FALSE]

\* a decorated coroutine is called and runs to its first suspension point
Start(s, tok, p, carrier) ==
    /\ NoneDone
    /\ calls[s].pc = "idle"
    /\ \A r \in Slots : r < s => calls[r].pc # "idle"
    /\ LET c0 == [Idle EXCEPT !.token = tok, !.pred = p, !.args = s]
           k  == AccessToken(tok)
       IN  /\ calls' = [calls EXCEPT ![s] = Authorize(c0, carrier)]
           /\ cache' = IF AuthEnabled(authEnv) /\ k # ""
                       THEN CacheAfterGet(cache, k, now) ELSE cache
           /\ hitSince' = IF authEnv # "0" /\ k # "" /\ Age(k, now) = "within"
                          THEN [hitSince EXCEPT ![k] = TRUE] ELSE hitSince
    /\ UNCHANGED <<authEnv, endpointSet, now, insertedAt, lastStored>>

\* the GET completes with a response: lines 54-55
GetOk(s, m, carrier) ==
    /\ NoneDone
    /\ calls[s].pc = "fetching"
    /\ LET c    == calls[s]
           k    == AccessToken(c.token)
           resp == Response(s, m)
           nc   == StoreResponse(cache, k, resp, now)
           c1   == [c EXCEPT !.own = resp, !.stored = TRUE,
                             !.storedBeforeCheck =
                                 nc[k].present /\ nc[k].resp = resp]
       IN  /\ cache' = nc
           /\ insertedAt' = [insertedAt EXCEPT ![k] = now]
           /\ lastStored' = [lastStored EXCEPT ![k] = resp]
           /\ hitSince' = [hitSince EXCEPT ![k] = FALSE]
           /\ calls' = [calls EXCEPT ![s] = NextResp(c1, resp, "miss", carrier)]
    /\ UNCHANGED <<authEnv, endpointSet, now>>

\* the GET fails: the exception leaves both async with blocks
GetFail(s) ==
    /\ NoneDone
    /\ calls[s].pc = "fetching"
    /\ calls' = [calls EXCEPT ![s] = Propagate(calls[s], "NetError")]
    /\ UNCHANGED <<authEnv, endpointSet, now, cache, insertedAt, lastStored, hitSince>>

\* the wrapped coroutine returns
FuncReturn(s) ==
    /\ NoneDone
    /\ calls[s].pc = "invoking"
    /\ calls' = [calls EXCEPT ![s] =
                    [calls[s] EXCEPT !.pc = "done",
                                     !.result = FuncResult(calls[s].invokedArgs)]]
    /\ UNCHANGED <<authEnv, endpointSet, now, cache, insertedAt, lastStored, hitSince>>

\* the wrapped coroutine raises
FuncRaise(s, e) ==
    /\ NoneDone
    /\ calls[s].pc = "invoking"
    /\ calls' = [calls EXCEPT ![s] = Raise(calls[s], e, calls[s].via)]
    /\ UNCHANGED <<authEnv, endpointSet, now, cache, insertedAt, lastStored, hitSince>>

\* the caller drops a finished call
Forget(s) ==
    /\ calls[s].pc = "done"
    /\ calls' = [calls EXCEPT ![s] = Idle]
    /\ UNCHANGED <<authEnv, endpointSet, now, cache, insertedAt, lastStored, hitSince>>

Tick ==
    /\ NoneDone
    /\ now + TickStep <= MaxTime
    /\ now' = now + TickStep
    /\ UNCHANGED <<authEnv, endpointSet, cache, calls, insertedAt, lastStored, hitSince>>

Next ==
    \/ \E s \in Slots, tok \in Tokens, p \in Predicates, carrier \in BOOLEAN :
          Start(s, tok, p, carrier)
    \/ \E s \in Slots, m \in BOOLEAN, carrier \in BOOLEAN : GetOk(s, m, carrier)
    \/ \E s \in Slots : GetFail(s)
    \/ \E s \in Slots : FuncReturn(s)
    \/ \E s \in Slots, e \in {"KeyError", "Error"} : FuncRaise(s, e)
    \/ \E s \in Slots : Forget(s)
    \/ Tick

Spec == Init /\ [][Next]_vars

TypeOK ==
    /\ authEnv \in AuthEnvValues
    /\ now \in 0..(MaxTime + TickStep)
    /\ \A s \in Slots : calls[s].pc \in {"idle", "fetching", "invoking", "done"}

\* ----------------------------------------------------------------- claims
Enabled(s) == authEnv # "0" /\ calls[s].pc # "idle"
HasCredential(s) == calls[s].token \notin {NoToken, ""}

\* C1: with authorization enabled, a call whose access_token is empty or
\* absent ends at once: the wrapped coroutine is not invoked, no GET is
\* issued, the cache is neither read nor written, nothing is returned and
\* the response object, when there is one, gets status 403.
C1_EmptyCredentialForbidden ==
    \A s \in Slots :
        (Enabled(s) /\ ~HasCredential(s)) =>
            /\ calls[s].pc = "done"
            /\ calls[s].rejected
            /\ calls[s].invoked = 0
            /\ calls[s].predEvals = 0
            /\ calls[s].netCalls = 0
            /\ calls[s].lookup = "none"
            /\ ~calls[s].stored
            /\ calls[s].result = NoResult
            /\ calls[s].exc = "none"
            /\ (calls[s].carrier => calls[s].status = 403)

C1_Witness ==
    \E s \in Slots :
        /\ Enabled(s) /\ ~HasCredential(s)
        /\ calls[s].carrier /\ calls[s].status = 403
        /\ \E r \in Slots : r # s /\ calls[r].pc = "fetching"

\* C2 (as stated): with authorization enabled and a non-empty credential a
\* finished call whose predicate answered false has not invoked the wrapped
\* coroutine, is rejected with 403 and returns nothing; one whose predicate
\* answered true and that returned has invoked it with the original
\* arguments and returns its value.
C2_Original ==
    \A s \in Slots :
        (Enabled(s) /\ HasCredential(s) /\ calls[s].pc = "done") =>
            /\ (calls[s].lastPred = "false" =>
                    /\ calls[s].invoked = 0
                    /\ calls[s].rejected
                    /\ (calls[s].carrier => calls[s].status = 403)
                    /\ calls[s].result = NoResult)
            /\ ((calls[s].lastPred = "true" /\ calls[s].exc = "none") =>
                    /\ calls[s].invokedArgs = s
                    /\ calls[s].result = FuncResult(s)
                    /\ ~calls[s].rejected
                    /\ calls[s].status = 0)

\* C3: with AUTH_ENABLED=0 every call, whatever its credential, invokes the
\* wrapped coroutine exactly once with the original arguments and returns
\* its result; no GET, no cache read or write, no predicate, and the
\* response object is left alone.
C3_DisabledBypass ==
    authEnv = "0" =>
        /\ \A k \in Keys : ~cache[k].present
        /\ \A s \in Slots :
              calls[s].pc # "idle" =>
                  /\ calls[s].pc \in {"invoking", "done"}
                  /\ calls[s].invoked = 1
                  /\ calls[s].invokedArgs = s
                  /\ calls[s].netCalls = 0
                  /\ calls[s].lookup = "none"
                  /\ ~calls[s].stored
                  /\ calls[s].predEvals = 0
                  /\ ~calls[s].rejected
                  /\ calls[s].status = 0
                  /\ ((calls[s].pc = "done" /\ calls[s].exc = "none") =>
                          calls[s].result = FuncResult(s))
                  /\ (calls[s].pc = "done" =>
                          calls[s].exc \in {"none", "KeyError", "Error"})

C3_Witness ==
    /\ authEnv = "0"
    /\ \E s \in Slots :
          /\ ~HasCredential(s)
          /\ calls[s].pc = "done"
          /\ calls[s].result = FuncResult(s)

\* C4 (as stated): with authorization enabled and a non-empty credential, a
\* call that finds no unexpired entry issues exactly one GET and stores the
\* response under the credential; a call that starts within 1200 s of the
\* last insertion issues no GET, whatever predicate and coroutine do.
C4_Original ==
    \A s \in Slots :
        (Enabled(s) /\ HasCredential(s)) =>
            /\ (calls[s].age # "within" /\ endpointSet) =>
                    /\ calls[s].netCalls = 1
                    /\ (calls[s].stored => calls[s].storedBeforeCheck)
            /\ calls[s].age = "within" => calls[s].netCalls = 0

\* C5 (as stated): once the predicate has raised, the call is over with that
\* exception: the wrapped coroutine was not invoked, the response object is
\* untouched and no GET follows the raise.
C5_Original ==
    \A s \in Slots :
        calls[s].predRaised # "none" =>
            /\ calls[s].pc = "done"
            /\ calls[s].exc = calls[s].predRaised
            /\ calls[s].invoked = 0
            /\ ~calls[s].rejected
            /\ calls[s].status = 0
            /\ calls[s].predEvals = 1

\* C6: a response the predicate rejects is cached all the same.  On the
\* miss the response is in the cache when the predicate is evaluated; a
\* call that starts within the TTL and whose predicate says false on the
\* cached response issues no GET.  Both are rejected with 403 and neither
\* invokes the wrapped coroutine.
C6_NegativeResultsCached ==
    \A s \in Slots :
        (Enabled(s) /\ HasCredential(s) /\ calls[s].firstPred = "false") =>
            /\ calls[s].pc = "done"
            /\ calls[s].rejected
            /\ calls[s].invoked = 0
            /\ calls[s].predEvals = 1
            /\ calls[s].result = NoResult
            /\ (calls[s].carrier => calls[s].status = 403)
            /\ (calls[s].age # "within" =>
                    /\ calls[s].netCalls = 1
                    /\ calls[s].stored
                    /\ calls[s].storedBeforeCheck)
            /\ (calls[s].age = "within" =>
                    /\ calls[s].lookup = "hit"
                    /\ calls[s].netCalls = 0
                    /\ ~calls[s].stored)

C6_Witness ==
    \E s \in Slots :
        /\ Enabled(s) /\ calls[s].firstPred = "false"
        /\ calls[s].age = "within"
        /\ calls[s].netCalls = 0
        /\ calls[s].carrier /\ calls[s].status = 403
        /\ \A k \in Keys : ~lastStored[k].marker

\* C7 (as stated): a call that ends with the failure of the GET has issued
\* that one GET only, has not invoked the wrapped coroutine, has not touched
\* the response object and has stored nothing.
C7_Original ==
    \A s \in Slots :
        calls[s].exc = "NetError" =>
            /\ calls[s].pc = "done"
            /\ calls[s].netCalls = 1
            /\ calls[s].invoked = 0
            /\ ~calls[s].rejected
            /\ calls[s].status = 0
            /\ ~calls[s].stored

\* C8: an entry's deadline is its insertion time plus 1200 s and no lookup
\* moves it: a call that starts more than 1200 s after the last insertion
\* of its credential misses and issues a fresh GET, hits in between or not.
C8_FixedDeadline ==
    /\ \A k \in Keys :
          cache[k].present => cache[k].expires = insertedAt[k] + 1200
    /\ \A s \in Slots :
          (Enabled(s) /\ HasCredential(s) /\ calls[s].age = "after") =>
              /\ calls[s].lookup = "miss"
              /\ calls[s].predEvals = IF calls[s].stored THEN 1 ELSE 0
              /\ (endpointSet => calls[s].netCalls = 1)

C8_Witness ==
    \E s \in Slots :
        /\ calls[s].age = "after"
        /\ calls[s].pc = "fetching"
        /\ hitSince[AccessToken(calls[s].token)]

\* C9: no single flight.  Calls that looked the credential up before any
\* response was stored all miss and each issues its own GET; each stores
\* its own response and evaluates the predicate on it; the entry holds the
\* response stored last.
C9_LastWriterWins ==
    /\ \A k \in Keys :
          lastStored[k] # NoResp =>
              cache[k].present /\ cache[k].resp = lastStored[k]
    /\ \A s \in Slots :
          (Enabled(s) /\ HasCredential(s) /\ calls[s].age = "none") =>
              /\ calls[s].lookup = "miss"
              /\ (endpointSet => calls[s].netCalls = 1)
              /\ (calls[s].stored =>
                      /\ calls[s].own.by = s
                      /\ calls[s].storedBeforeCheck
                      /\ calls[s].checkedOwn)

C9_Witness ==
    \E s, r \in Slots :
        /\ s # r
        /\ calls[s].token = calls[r].token
        /\ calls[s].age = "none" /\ calls[r].age = "none"
        /\ calls[s].stored /\ calls[r].stored
        /\ calls[s].own # calls[r].own
        /\ calls[s].own.marker # calls[r].own.marker
        /\ cache[AccessToken(calls[r].token)].resp = calls[r].own

\* C10 (as stated): a call invokes the wrapped coroutine at most once and
\* evaluates the predicate at most once, on every path.
C10_Original ==
    \A s \in Slots : calls[s].invoked <= 1 /\ calls[s].predEvals <= 1
====
